---- MODULE Spec2Model ----
(***************************************************************************)
(* Risk assessment engine of the health-guidance app: the server action    *)
(* diagnoseSymptoms and the flow diagnoseSymptomsFlow it wraps.            *)
(*                                                                         *)
(* The repository holds five implementations of diagnoseSymptoms:          *)
(*   "A"  src/src/ai/flows/diagnose-symptoms-flow.ts lines   1-182         *)
(*   "B"  src/src/ai/flows/diagnose-symptoms-flow.ts lines 184-374         *)
(*   "C"  src/src/ai/flows/diagnose-symptoms-flow.ts lines 376-532         *)
(*   "D"  src/src/ai/flows/diagnose-symptoms-flow.ts lines 534-713         *)
(*   "E"  src/unnamed/part_000                                             *)
(* The variable impl says which one serves the request.                    *)
(*                                                                         *)
(* A JavaScript string that the code inspects (the description) is a       *)
(* sequence of one-character strings, so that toLowerCase and includes     *)
(* are computed; strings the code only copies are TLA+ strings.  A         *)
(* JavaScript object is a record, an absent (undefined) property is a      *)
(* field missing from its DOMAIN.                                          *)
(***************************************************************************)
EXTENDS Integers, Sequences, FiniteSets, TLC

\* one request to diagnoseSymptoms
VARIABLES impl, input, pc, output, result, error, genCalls, fallbackCalls

\* the prompt the flow hands to ai.generate
VARIABLES promptParts

\* two requests to diagnoseSymptoms in flight, and the objects ai.generate
\* has allocated for its responses
VARIABLES requests, heap

\* the browser session the pages share: the route shown, localStorage, and
\* what useUser() returns
VARIABLES route, localStorage, user, isUserLoading

\* the result page: its variant, what useDoc() returns, its three states,
\* the fetchResult calls waiting for diagnoseSymptoms, and counters
VARIABLES resultPageImpl, isProfileLoading, userProfile, rpResult, rpLoading,
          rpError, fetches, analyses, finished, effectRuns, mounted

\* the symptoms page: its variant, its states, the FileReader of
\* handleSubmit, and what the browser's storage accepts
VARIABLES symptomsPageImpl, spDescription, spImage, spImagePreview, spError,
          spLoading, reader, quota

\* the home page: its variant, its loading state, the anonymous sign-in it
\* started, the toasts shown, and whether the symptoms page has rendered
VARIABLES homePageImpl, homeLoading, signIn, toasts, symptomsMounted

\* sign-up: the users collection, the accounts of the identity service, and
\* the two sign-up forms being submitted
VARIABLES profiles, accounts, signUps

\* the medicine tracker: the medicines of today, the status documents of
\* today, and the loading flag of their listener
VARIABLES medicines, medicineStatuses, isStatusLoading, setDocumentImpl

diagVars == <<impl, input, pc, output, result, error, genCalls, fallbackCalls>>

sessionVars == <<route, localStorage, user, isUserLoading>>

resultVars == <<resultPageImpl, isProfileLoading, userProfile, rpResult,
                rpLoading, rpError, fetches, analyses, finished, effectRuns,
                mounted>>

symptomsVars == <<symptomsPageImpl, spDescription, spImage, spImagePreview,
                  spError, spLoading, reader, quota>>

homeVars == <<homePageImpl, homeLoading, signIn, toasts, symptomsMounted>>

signUpVars == <<profiles, accounts, signUps>>

trackerVars == <<medicines, medicineStatuses, isStatusLoading,
                setDocumentImpl>>

\* the pages of the app
appVars == <<sessionVars, resultVars, symptomsVars, homeVars, signUpVars,
             trackerVars>>

\* no page is open
SessionIdle ==
  /\ route = "/"
  /\ localStorage = <<>>
  /\ user = "null"
  /\ isUserLoading = TRUE

ResultIdle ==
  /\ resultPageImpl = "none"
  /\ isProfileLoading = FALSE
  /\ userProfile = 0
  /\ rpResult = "null"
  /\ rpLoading = TRUE
  /\ rpError = "null"
  /\ fetches = <<>>
  /\ analyses = 0
  /\ finished = 0
  /\ effectRuns = 0
  /\ mounted = FALSE

SymptomsIdle ==
  /\ symptomsPageImpl = "none"
  /\ spDescription = ""
  /\ spImage = "null"
  /\ spImagePreview = "null"
  /\ spError = ""
  /\ spLoading = FALSE
  /\ reader = "idle"
  /\ quota = "all"

HomeIdle ==
  /\ homePageImpl = "none"
  /\ homeLoading = "null"
  /\ signIn = "idle"
  /\ toasts = {}
  /\ symptomsMounted = FALSE

SignUpIdle ==
  /\ profiles = <<>>
  /\ accounts = {}
  /\ signUps = <<>>

TrackerIdle ==
  /\ medicines = {}
  /\ medicineStatuses = <<>>
  /\ isStatusLoading = TRUE
  /\ setDocumentImpl = "none"

AppIdle ==
  /\ SessionIdle /\ ResultIdle /\ SymptomsIdle
  /\ HomeIdle /\ SignUpIdle /\ TrackerIdle

promptVars == <<promptParts>>

concVars == <<requests, heap>>

\* the state outside the single request to diagnoseSymptoms
otherVars == <<promptVars, concVars, appVars>>

vars == <<diagVars, otherVars>>

(***************************************************************************)
(* Bounds                                                                  *)
(***************************************************************************)
\* a description is made of at most MaxPhrases phrases joined by ", "
MaxPhrases == 2

(***************************************************************************)
(* Characters and words                                                    *)
(***************************************************************************)
UpperCase == <<"A","B","C","D","E","F","G","H","I","J","K","L","M",
               "N","O","P","Q","R","S","T","U","V","W","X","Y","Z">>

LowerCase == <<"a","b","c","d","e","f","g","h","i","j","k","l","m",
               "n","o","p","q","r","s","t","u","v","w","x","y","z">>

SP == <<" ">>

w_accident == <<"a","c","c","i","d","e","n","t">>
w_asthma == <<"a","s","t","h","m","a">>
w_attack == <<"a","t","t","a","c","k">>
w_bleeding == <<"b","l","e","e","d","i","n","g">>
w_blood == <<"b","l","o","o","d">>
w_body == <<"b","o","d","y">>
w_breathing == <<"b","r","e","a","t","h","i","n","g">>
w_chest == <<"c","h","e","s","t">>
w_cut == <<"c","u","t">>
w_diarrhea == <<"d","i","a","r","r","h","e","a">>
w_difficulty == <<"d","i","f","f","i","c","u","l","t","y">>
w_emergency == <<"e","m","e","r","g","e","n","c","y">>
w_fever == <<"f","e","v","e","r">>
w_for == <<"f","o","r">>
w_head == <<"h","e","a","d">>
w_headache == <<"h","e","a","d","a","c","h","e">>
w_heart == <<"h","e","a","r","t">>
w_heavy == <<"h","e","a","v","y">>
w_infection == <<"i","n","f","e","c","t","i","o","n">>
w_injury == <<"i","n","j","u","r","y">>
w_pain == <<"p","a","i","n">>
w_poison == <<"p","o","i","s","o","n">>
w_rash == <<"r","a","s","h">>
w_seizure == <<"s","e","i","z","u","r","e">>
w_severe == <<"s","e","v","e","r","e">>
w_small == <<"s","m","a","l","l">>
w_stomach == <<"s","t","o","m","a","c","h">>
w_swelling == <<"s","w","e","l","l","i","n","g">>
w_unconscious == <<"u","n","c","o","n","s","c","i","o","u","s">>
w_vomiting == <<"v","o","m","i","t","i","n","g">>
w_wound == <<"w","o","u","n","d">>

\* what the user types
t_Accident == <<"A","c","c","i","d","e","n","t">>

(***************************************************************************)
(* String.prototype.toLowerCase, String.prototype.includes, truthiness     *)
(***************************************************************************)
\* the lower-case letter of each upper-case letter
LowerOf ==
  [ c \in { UpperCase[i] : i \in 1..Len(UpperCase) } |->
      LowerCase[CHOOSE i \in 1..Len(UpperCase) : UpperCase[i] = c] ]

toLowerChar(c) == IF c \in DOMAIN LowerOf THEN LowerOf[c] ELSE c

toLowerCase(s) == [i \in 1..Len(s) |-> toLowerChar(s[i])]

includes(s, k) ==
  \E i \in 1..(Len(s) - Len(k) + 1) : SubSeq(s, i, i + Len(k) - 1) = k

\* flags.some((k) => text.includes(k))
some(flags, s) == \E k \in flags : includes(s, k)

Has(o, f) == f \in DOMAIN o

\* !!o.f for a property holding a sequence of characters
TruthyText(o, f) == Has(o, f) /\ Len(o[f]) > 0

\* !!o.f for a property holding a string
TruthyString(o, f) == Has(o, f) /\ o[f] # ""

(***************************************************************************)
(* The request: DiagnoseSymptomsInput                                      *)
(***************************************************************************)
Impls == {"A", "B", "C", "D", "E"}

\* the phrases a user may type
Phrases == { w_bleeding, t_Accident, w_chest \o SP \o w_pain, w_headache,
             w_fever, w_small \o SP \o w_cut, w_seizure, w_asthma }

Separator == <<",", " ">>

RECURSIVE Join(_)
Join(ps) ==
  IF Len(ps) = 0 THEN <<>>
  ELSE IF Len(ps) = 1 THEN ps[1]
  ELSE ps[1] \o Separator \o Join(Tail(ps))

Descriptions ==
  { Join(ps) : ps \in UNION { [1..n -> Phrases] : n \in 0..MaxPhrases } }

PhotoUri == "data:image/png;base64,iVBORw0KGgo="

Photos == {"", PhotoUri}

\* description and photoDataUri are both optional properties
Inputs ==
  { [description |-> d, photoDataUri |-> p] : d \in Descriptions, p \in Photos }
    \cup { [description |-> d] : d \in Descriptions }
    \cup { [photoDataUri |-> p] : p \in Photos }
    \cup { <<>> }

(***************************************************************************)
(* The result: DiagnoseSymptomsOutput                                      *)
(***************************************************************************)
RiskLevels == {"Green", "Yellow", "Red"}

GreenAction == "Continue home care and monitor"

YellowAction == "Visit a nearby doctor or hospital if needed"

RedAction == "Go to the nearest hospital immediately"

\* what the generation service may answer for nextAction and precautions:
\* the schema asks for a string and an array of strings, nothing more
ModelNextActions == {GreenAction, YellowAction, RedAction}

ModelPrecautions == { <<>>, <<"Take rest">> }

ModelSpecialists == {"", "Cardiologist"}

\* DiagnoseSymptomsOutputSchema of each implementation: the outputs of the
\* generation service that pass schema validation
DiagnoseSymptomsOutputSchema(i) ==
  CASE i \in {"A", "B"} ->
         [ riskLevel : RiskLevels, analysis : {"model analysis"},
           precautions : ModelPrecautions, nextAction : ModelNextActions,
           hospitalRequired : BOOLEAN ]
    [] i = "C" ->
         [ riskLevel : RiskLevels, analysis : {"model analysis"},
           guidance : {"model guidance"} ]
    [] OTHER ->
         [ riskLevel : RiskLevels, analysis : {"model analysis"},
           precautions : ModelPrecautions, nextAction : ModelNextActions,
           hospitalRequired : BOOLEAN, specialist : ModelSpecialists ]

\* DiagnoseSymptomsInputSchema: only implementation A declares description
\* optional; the flow rejects an input that fails its inputSchema
DiagnoseSymptomsInputSchema(i, inp) ==
  i = "A" \/ Has(inp, "description")

NoOutput == [ riskLevel |-> "none" ]

NoError == "none"

\* the ways the generation call fails: ai.generate rejects, the response
\* carries no output, the output fails the output schema
GenerationFailures == {"network", "noOutput", "schema"}

(***************************************************************************)
(* diagnoseSymptomsFlow: what the flow does with the validated output of   *)
(* the generation service before it returns it                             *)
(***************************************************************************)
\* implementation A, "Enforce safety rules": three updates of the output
\* object, one after the other
enforceGreen(o) ==
  IF o.riskLevel = "Green"
  THEN [o EXCEPT !.nextAction = GreenAction, !.hospitalRequired = FALSE]
  ELSE o

enforceYellow(o) ==
  IF o.riskLevel = "Yellow"
  THEN [o EXCEPT !.nextAction = YellowAction, !.hospitalRequired = FALSE]
  ELSE o

enforceRed(o) ==
  IF o.riskLevel = "Red"
  THEN [o EXCEPT !.nextAction = RedAction, !.hospitalRequired = TRUE,
                 !.precautions = <<>>]
  ELSE o

enforceSafetyRules(o) == enforceRed(enforceYellow(enforceGreen(o)))

\* implementation C, "Override guidance text": switch (output.riskLevel)
overrideGuidance(o) ==
  CASE o.riskLevel = "Green" ->
         [o EXCEPT !.guidance = "This problem looks minor. You can take rest and basic care at home."]
    [] o.riskLevel = "Yellow" ->
         [o EXCEPT !.guidance = "This problem needs attention. Please visit a hospital if possible."]
    [] o.riskLevel = "Red" ->
         [o EXCEPT !.guidance = "This is serious. Please go to the nearest hospital immediately."]
    [] OTHER -> o

\* the value the flow returns for the output o of the generation service;
\* implementations B, D and E return llmResponse.output as it is
diagnoseSymptomsFlow(i, o) ==
  CASE i = "A" -> enforceSafetyRules(o)
    [] i = "C" -> overrideGuidance(o)
    [] OTHER -> o

(***************************************************************************)
(* diagnoseSymptoms: the empty-input result                                *)
(***************************************************************************)
NotEnoughInformation ==
  [ riskLevel |-> "Yellow",
    analysis |-> "Not enough information provided.",
    precautions |-> <<"Describe the problem clearly", "Upload a photo if possible">>,
    nextAction |-> YellowAction,
    hospitalRequired |-> FALSE ]

NotEnoughInformationC ==
  [ riskLevel |-> "Yellow",
    analysis |-> "Not enough information provided.",
    guidance |-> "Please describe your problem or upload a photo to get guidance." ]

NotEnoughInformationE ==
  [ riskLevel |-> "Yellow",
    analysis |-> "Not enough information provided.",
    precautions |-> <<"Describe the problem clearly", "Upload a photo if possible">>,
    nextAction |-> YellowAction,
    hospitalRequired |-> FALSE,
    specialist |-> "General Physician" ]

\* if (!input.description && !input.photoDataUri): implementations A, B, C
\* and E test it; implementation D has no such test
isEmptyInput(i, inp) ==
  /\ i # "D"
  /\ ~TruthyText(inp, "description")
  /\ ~TruthyString(inp, "photoDataUri")

emptyInputResult(i) ==
  CASE i = "C" -> NotEnoughInformationC
    [] i = "E" -> NotEnoughInformationE
    [] OTHER -> NotEnoughInformation

(***************************************************************************)
(* diagnoseSymptoms: the catch block                                       *)
(***************************************************************************)
Return(v) == [ kind |-> "return", value |-> v ]

Throw(e) == [ kind |-> "throw", error |-> e ]

\* implementation A: (input.description || "").toLowerCase();
\* implementation D: input.description?.toLowerCase() || ""
text(inp) ==
  IF Has(inp, "description") THEN toLowerCase(inp.description) ELSE <<>>

redFlags ==
  { w_chest \o SP \o w_pain, w_difficulty \o SP \o w_breathing, w_unconscious,
    w_heavy \o SP \o w_bleeding, w_accident, w_poison, w_seizure }

redFlagsC ==
  { w_chest \o SP \o w_pain, w_breathing, w_unconscious, w_bleeding,
    w_severe \o SP \o w_pain, w_accident, w_emergency,
    w_heart \o SP \o w_attack, w_poison }

yellowFlagsC ==
  { w_fever, w_headache, w_vomiting, w_stomach, w_pain, w_swelling, w_rash }

\* a Yellow tier that also holds "cut"
yellowFlags_withCut ==
  { w_fever, w_vomiting, w_diarrhea, w_stomach \o SP \o w_pain, w_infection,
    w_body \o SP \o w_pain, w_swelling, w_headache \o SP \o w_for, w_cut }

yellowFlags ==
  { w_fever, w_vomiting, w_diarrhea, w_stomach \o SP \o w_pain, w_infection,
    w_body \o SP \o w_pain, w_swelling, w_headache \o SP \o w_for }

fallbackA(inp) ==
  IF some(redFlags, text(inp))
  THEN Return([ riskLevel |-> "Red",
                analysis |-> "This problem looks serious.",
                precautions |-> <<>>,
                nextAction |-> RedAction,
                hospitalRequired |-> TRUE ])
  ELSE Return([ riskLevel |-> "Yellow",
                analysis |-> "Medical attention may be needed.",
                precautions |-> <<"Consult a doctor if symptoms worsen">>,
                nextAction |-> YellowAction,
                hospitalRequired |-> FALSE ])

\* implementations B, C and E: input.description.toLowerCase(), a TypeError
\* when description is undefined
fallbackB(inp) ==
  IF ~Has(inp, "description") THEN Throw("TypeError")
  ELSE IF some(redFlags, toLowerCase(inp.description))
  THEN Return([ riskLevel |-> "Red",
                analysis |-> "This problem looks serious.",
                precautions |-> <<>>,
                nextAction |-> RedAction,
                hospitalRequired |-> TRUE ])
  ELSE Return([ riskLevel |-> "Yellow",
                analysis |-> "This problem needs attention.",
                precautions |-> <<"Take rest", "Drink enough water", "Avoid heavy work">>,
                nextAction |-> YellowAction,
                hospitalRequired |-> FALSE ])

fallbackC(inp) ==
  IF ~Has(inp, "description") THEN Throw("TypeError")
  ELSE IF some(redFlagsC, toLowerCase(inp.description))
  THEN Return([ riskLevel |-> "Red",
                analysis |-> "Your description contains serious keywords.",
                guidance |-> "This is serious. Please go to the nearest hospital immediately." ])
  ELSE IF some(yellowFlagsC, toLowerCase(inp.description))
  THEN Return([ riskLevel |-> "Yellow",
                analysis |-> "Your symptoms need attention.",
                guidance |-> "This problem needs attention. Please visit a hospital if possible." ])
  ELSE Return([ riskLevel |-> "Green",
                analysis |-> "Based on your description, the issue seems minor.",
                guidance |-> "This problem looks minor. You can take rest and basic care at home." ])

\* the Red result of the image override, copied for every Red case
RedResultE_emergency(a, sp) ==
  [ riskLevel |-> "Red", analysis |-> a, precautions |-> <<>>,
    nextAction |-> RedAction, hospitalRequired |-> TRUE,
    specialist |-> "Emergency" ]

RedResultE(a, sp) ==
  [ riskLevel |-> "Red", analysis |-> a, precautions |-> <<>>,
    nextAction |-> RedAction, hospitalRequired |-> TRUE, specialist |-> sp ]

fallbackE(inp) ==
  IF ~Has(inp, "description") THEN Throw("TypeError")
  ELSE LET t == toLowerCase(inp.description) IN
    IF includes(t, w_chest \o SP \o w_pain) \/ includes(t, w_heart)
    THEN Return(RedResultE("Chest or heart problem detected.", "Cardiologist"))
    ELSE IF includes(t, w_accident) \/ includes(t, w_bleeding)
    THEN Return(RedResultE("Accident or heavy bleeding detected.", "Emergency"))
    ELSE IF includes(t, w_breathing) \/ includes(t, w_asthma)
    THEN Return(RedResultE("Breathing problem detected.", "Pulmonologist"))
    ELSE IF some(yellowFlags, t)
    THEN Return([ riskLevel |-> "Yellow",
                  analysis |-> "This problem needs medical attention.",
                  precautions |-> <<"Take rest", "Drink enough water", "Avoid heavy work">>,
                  nextAction |-> YellowAction,
                  hospitalRequired |-> FALSE,
                  specialist |-> "General Physician" ])
    ELSE Return([ riskLevel |-> "Green",
                  analysis |-> "This problem appears to be minor.",
                  precautions |-> <<"Take rest", "Drink enough water", "Avoid heavy work">>,
                  nextAction |-> GreenAction,
                  hospitalRequired |-> FALSE,
                  specialist |-> "General Physician" ])

\* implementation D: console.error("AI failed:", error); throw error
rethrow(e) == Throw(e)

\* a catch block that logs the error and throws it again
catch_rethrow(i, inp, e) == Throw(e)

\* the catch block of diagnoseSymptoms, entered with the error e
catch(i, inp, e) ==
  CASE i = "A" -> fallbackA(inp)
    [] i = "B" -> fallbackB(inp)
    [] i = "C" -> fallbackC(inp)
    [] i = "D" -> rethrow(e)
    [] OTHER -> fallbackE(inp)

\* the keyword classifier runs in every catch block but that of D
hasFallback(i) == i # "D"

(***************************************************************************)
(* diagnoseSymptoms: what it does with the value the flow returned         *)
(***************************************************************************)
hasImage(inp) == TruthyString(inp, "photoDataUri")

\* the override tested against the description as typed
imageSafetyOverride_caseSensitive(inp) ==
  /\ hasImage(inp)
  /\ Has(inp, "description")
  /\ some({ w_bleeding, w_blood, w_head, w_injury, w_accident, w_wound },
          inp.description)

\* implementation D, "ABSOLUTE SAFETY OVERRIDE (IMAGE FIRST)"
overrideTerms == { w_bleeding, w_blood, w_head, w_injury, w_accident, w_wound }

imageSafetyOverride(inp) == hasImage(inp) /\ some(overrideTerms, text(inp))

\* implementation D, "IMAGE PRESENT BUT NOT SEVERE -> MIN YELLOW"
minimumYellow(aiResult) ==
  [ aiResult EXCEPT
      !.riskLevel = "Yellow",
      !.analysis = "Visible injury detected. Medical attention advised.",
      !.hospitalRequired = FALSE,
      !.specialist = IF aiResult.specialist # "" THEN aiResult.specialist
                     ELSE "General Physician" ]

\* every result with an image is set to Yellow, whatever the flow returned
trustOrOverride_alwaysYellow(inp, aiResult) ==
  IF hasImage(inp) THEN minimumYellow(aiResult) ELSE aiResult

trustOrOverride(inp, aiResult) ==
  IF imageSafetyOverride(inp)
  THEN [ riskLevel |-> "Red",
         analysis |-> "Severe injury detected from the image.",
         precautions |-> <<>>,
         nextAction |-> RedAction,
         hospitalRequired |-> TRUE,
         specialist |-> "Emergency" ]
  ELSE IF hasImage(inp) /\ aiResult.riskLevel = "Green"
  THEN minimumYellow(aiResult)
  ELSE aiResult

\* the value diagnoseSymptoms returns when the flow returned aiResult
afterFlow(i, inp, aiResult) ==
  IF i = "D" THEN trustOrOverride(inp, aiResult) ELSE aiResult

(***************************************************************************)
(* One request to diagnoseSymptoms                                         *)
(***************************************************************************)
\* no prompt built yet
PromptIdle == promptParts = <<>>

\* no concurrent requests
ConcIdle == requests = <<>> /\ heap = <<>>

Init ==
  /\ impl \in Impls
  /\ input \in Inputs
  /\ pc = "Received"
  /\ output = NoOutput
  /\ result = NoOutput
  /\ error = NoError
  /\ genCalls = 0
  /\ fallbackCalls = 0
  /\ PromptIdle
  /\ ConcIdle
  /\ AppIdle

\* diagnoseSymptoms up to its await: the empty-input test, then the flow up
\* to ai.generate (input validation, prompt, the call)
Call ==
  /\ pc = "Received"
  /\ IF isEmptyInput(impl, input)
     THEN /\ result' = emptyInputResult(impl)
          /\ pc' = "Returned"
          /\ UNCHANGED <<error, genCalls>>
     ELSE IF ~DiagnoseSymptomsInputSchema(impl, input)
     THEN /\ error' = "inputSchema"
          /\ pc' = "FlowRejected"
          /\ UNCHANGED <<result, genCalls>>
     ELSE /\ genCalls' = genCalls + 1
          /\ pc' = "GenerationAttempted"
          /\ UNCHANGED <<result, error>>
  /\ UNCHANGED <<impl, input, output, fallbackCalls>>
  /\ UNCHANGED otherVars

\* the generation service answers with an output that passes the schema
GenerationSucceeds ==
  /\ pc = "GenerationAttempted"
  /\ \E o \in DiagnoseSymptomsOutputSchema(impl) : output' = o
  /\ pc' = "GenerationSucceeded"
  /\ UNCHANGED <<impl, input, result, error, genCalls, fallbackCalls>>
  /\ UNCHANGED otherVars

\* a failed generation call is tried again
GenerationFails_retry ==
  /\ pc = "GenerationAttempted"
  /\ pc' = "Received"
  /\ UNCHANGED <<impl, input, output, result, error, genCalls, fallbackCalls>>
  /\ UNCHANGED otherVars

\* the generation call fails: the flow's promise is rejected
GenerationFails ==
  /\ pc = "GenerationAttempted"
  /\ \E f \in GenerationFailures : error' = f
  /\ pc' = "FlowRejected"
  /\ UNCHANGED <<impl, input, output, result, genCalls, fallbackCalls>>
  /\ UNCHANGED otherVars

\* the rest of the flow and of diagnoseSymptoms after a successful await
ReturnResult ==
  /\ pc = "GenerationSucceeded"
  /\ result' = afterFlow(impl, input, diagnoseSymptomsFlow(impl, output))
  /\ pc' = "Returned"
  /\ UNCHANGED <<impl, input, output, error, genCalls, fallbackCalls>>
  /\ UNCHANGED otherVars

\* the catch block of diagnoseSymptoms
Catch ==
  /\ pc = "FlowRejected"
  /\ fallbackCalls' = IF hasFallback(impl) THEN fallbackCalls + 1 ELSE fallbackCalls
  /\ LET r == catch(impl, input, error) IN
       IF r.kind = "return"
       THEN /\ result' = r.value
            /\ pc' = "Returned"
            /\ UNCHANGED error
       ELSE /\ error' = r.error
            /\ pc' = "Thrown"
            /\ UNCHANGED result
  /\ UNCHANGED <<impl, input, output, genCalls>>
  /\ UNCHANGED otherVars

Next ==
  \/ Call
  \/ GenerationSucceeds
  \/ GenerationFails
  \/ ReturnResult
  \/ Catch

Spec == Init /\ [][Next]_vars

\* the requests served by implementation A
InitA == Init /\ impl = "A"

\* a request in flight is not abandoned: the generation call completes and
\* the server action runs to its end
FairSpecA == InitA /\ [][Next]_vars /\ WF_vars(Next)

(***************************************************************************)
(* Vocabulary of the properties                                            *)
(***************************************************************************)
\* the request carries an image
IncludesImage == Has(input, "photoDataUri") /\ input.photoDataUri = PhotoUri

\* the description holds one of the keywords kws, in any letter case
DescriptionContains(kws) ==
  /\ Has(input, "description")
  /\ \E k \in kws : includes(toLowerCase(input.description), k)

\* both the description and the image are absent or empty
NothingSubmitted ==
  /\ Has(input, "description") => input.description = <<>>
  /\ Has(input, "photoDataUri") => input.photoDataUri = ""

\* the severe-trauma keywords of the image safety floor (rule 4)
StrictTraumaKeywords ==
  { w_bleeding, w_blood, w_head \o SP \o w_injury, w_accident, w_wound }

AssessmentFields ==
  {"riskLevel", "analysis", "precautions", "nextAction", "hospitalRequired"}

\* r is an AssessmentResult with every field populated
FullyPopulated(r) ==
  /\ AssessmentFields \subseteq DOMAIN r
  /\ r.riskLevel \in RiskLevels

\* the value came from the generation service / from the catch block
GenerationSucceeded == output # NoOutput

FlowFailed == error # NoError

(***************************************************************************)
(* C1                                                                      *)
(***************************************************************************)
\* C1: every result with riskLevel Red returned by the implementations A, D
\* and E has precautions = [], hospitalRequired = true and
\* nextAction = "Go to the nearest hospital immediately".
C1_RedIsConsistent ==
  (pc = "Returned" /\ impl \in {"A", "D", "E"} /\ result.riskLevel = "Red")
    => /\ result.precautions = <<>>
       /\ result.hospitalRequired = TRUE
       /\ result.nextAction = RedAction

(***************************************************************************)
(* C2                                                                      *)
(***************************************************************************)
\* C2: in implementation D, a request with an image whose description holds
\* a strict trauma keyword is returned Red whatever riskLevel the generation
\* service answered.
C2_TraumaWithImageIsRed ==
  (pc = "Returned" /\ impl = "D" /\ IncludesImage
     /\ DescriptionContains(StrictTraumaKeywords))
    => result.riskLevel = "Red"

\* an image, "Accident" typed with a capital, the service answers Green
C2_Witness ==
  /\ pc = "Returned" /\ impl = "D" /\ IncludesImage
  /\ Has(input, "description") /\ input.description = t_Accident
  /\ output.riskLevel = "Green"
  /\ result.riskLevel = "Red"

(***************************************************************************)
(* C3                                                                      *)
(***************************************************************************)
\* C3: in the implementations A and D, a failure of the generation call
\* (network, no output, schema) never ends with an error thrown to the
\* caller.
C3_FailureIsRecovered ==
  (impl \in {"A", "D"} /\ error \in GenerationFailures) => pc # "Thrown"

(***************************************************************************)
(* C4                                                                      *)
(***************************************************************************)
\* C4: in the implementations A and D, a request with an image, answered
\* Green by the generation service, whose description holds no strict
\* trauma keyword, is returned Yellow with hospitalRequired = false.
C4_ImageFloorIsYellow ==
  (pc = "Returned" /\ impl \in {"A", "D"} /\ IncludesImage
     /\ output.riskLevel = "Green"
     /\ ~DescriptionContains(StrictTraumaKeywords))
    => /\ result.riskLevel = "Yellow"
       /\ result.hospitalRequired = FALSE

(***************************************************************************)
(* C5                                                                      *)
(***************************************************************************)
\* C5: every result with riskLevel Yellow returned by the implementations A
\* and D has nextAction = "Visit a nearby doctor or hospital if needed" and
\* hospitalRequired = false.
C5_YellowIsConsistent ==
  (pc = "Returned" /\ impl \in {"A", "D"} /\ result.riskLevel = "Yellow")
    => /\ result.nextAction = YellowAction
       /\ result.hospitalRequired = FALSE

(***************************************************************************)
(* C6                                                                      *)
(***************************************************************************)
\* C6: every result with riskLevel Green returned by the implementations A,
\* D and E has hospitalRequired = false and
\* nextAction = "Continue home care and monitor".
C6_GreenIsConsistent ==
  (pc = "Returned" /\ impl \in {"A", "D", "E"} /\ result.riskLevel = "Green")
    => /\ result.hospitalRequired = FALSE
       /\ result.nextAction = GreenAction

(***************************************************************************)
(* C7                                                                      *)
(***************************************************************************)
\* C7: in the implementations A and D, when description and image are both
\* absent or empty, neither the generation service nor the keyword
\* classifier is invoked, no error is thrown, and the value returned is
\* Yellow, "Not enough information provided.", hospitalRequired = false.
C7_EmptyInputShortCircuits ==
  (impl \in {"A", "D"} /\ NothingSubmitted)
    => /\ genCalls = 0
       /\ fallbackCalls = 0
       /\ pc # "Thrown"
       /\ pc = "Returned" =>
            /\ result.riskLevel = "Yellow"
            /\ result.analysis = "Not enough information provided."
            /\ result.hospitalRequired = FALSE

(***************************************************************************)
(* C8                                                                      *)
(***************************************************************************)
\* C8: in the implementations A, C and E, a result produced by the catch
\* block after a failed generation call is never Green.
C8_FallbackNeverGreen ==
  (pc = "Returned" /\ impl \in {"A", "C", "E"} /\ FlowFailed)
    => result.riskLevel # "Green"

(***************************************************************************)
(* C9                                                                      *)
(***************************************************************************)
\* C9: in implementation A every request, once received, eventually reaches
\* Returned, with an AssessmentResult whose fields are all populated.
C9_RunsToCompletion ==
  (impl = "A" /\ pc = "Received")
    ~> (pc = "Returned" /\ FullyPopulated(result))

\* a request with an image and no description, whose generation call failed
C9_Witness ==
  /\ impl = "A" /\ pc = "Returned" /\ FullyPopulated(result)
  /\ IncludesImage /\ ~Has(input, "description")
  /\ error \in GenerationFailures

(***************************************************************************)
(* C10                                                                     *)
(***************************************************************************)
\* C10: in the implementations A, B and E, once the catch block has been
\* entered for a request that is not empty, no error is thrown, and the
\* value returned has every field populated.
C10_FallbackNeverFails ==
  (impl \in {"A", "B", "E"} /\ ~NothingSubmitted /\ fallbackCalls > 0)
    => /\ pc # "Thrown"
       /\ pc = "Returned" => FullyPopulated(result)

(***************************************************************************)
(* C11                                                                     *)
(***************************************************************************)
\* Green < Yellow < Red
Rank(level) ==
  CASE level = "Green" -> 1 [] level = "Yellow" -> 2 [] level = "Red" -> 3

\* C11: whenever generation succeeded, the riskLevel returned is greater
\* than or equal to the riskLevel the generation service answered, in the
\* order Green < Yellow < Red.
C11_NeverDowngrades ==
  (pc = "Returned" /\ GenerationSucceeded)
    => Rank(result.riskLevel) >= Rank(output.riskLevel)

\* the override has raised a Green answer to Red
C11_Witness ==
  /\ pc = "Returned" /\ impl = "D" /\ GenerationSucceeded /\ IncludesImage
  /\ output.riskLevel = "Green"
  /\ result.riskLevel = "Red"

(***************************************************************************)
(* C13 - C17: the keyword tiers of the fallback                            *)
(***************************************************************************)
RedTierKeywords ==
  { w_chest \o SP \o w_pain, w_heart, w_accident, w_bleeding, w_breathing,
    w_asthma, w_unconscious, w_poison, w_seizure }

YellowTierKeywords ==
  { w_fever, w_vomiting, w_diarrhea, w_stomach \o SP \o w_pain, w_infection,
    w_body \o SP \o w_pain, w_swelling, w_headache }

CardiacKeywords == { w_chest \o SP \o w_pain, w_heart }
TraumaKeywords == { w_accident, w_bleeding }
RespiratoryKeywords == { w_breathing, w_asthma }

\* the request was answered by the keyword classifier after a failed flow
FallbackAnswered == pc = "Returned" /\ FlowFailed /\ fallbackCalls = 1

\* C13: on the fallback path every description that contains a Red-tier
\* keyword, in any letter case, is classified Red.
C13_RedTierIsRed ==
  (FallbackAnswered /\ impl \in {"A", "C", "E"}
     /\ DescriptionContains(RedTierKeywords))
    => result.riskLevel = "Red"

\* C14: a Red fallback result carries the specialist of the first matching
\* sub-category in the order cardiac, trauma, respiratory, with
\* hospitalRequired true and no precautions.
C14_RedSpecialist ==
  (FallbackAnswered /\ impl = "E" /\ result.riskLevel = "Red")
    => /\ result.specialist =
            IF DescriptionContains(CardiacKeywords) THEN "Cardiologist"
            ELSE IF DescriptionContains(TraumaKeywords) THEN "Emergency"
            ELSE IF DescriptionContains(RespiratoryKeywords)
                   THEN "Pulmonologist"
            ELSE "none"
       /\ result.hospitalRequired = TRUE
       /\ result.precautions = <<>>

\* a description of the cardiac and of the trauma sub-category is given the
\* Cardiologist
C14_Witness ==
  /\ FallbackAnswered /\ impl = "E" /\ result.riskLevel = "Red"
  /\ DescriptionContains(CardiacKeywords)
  /\ DescriptionContains(TraumaKeywords)
  /\ result.specialist = "Cardiologist"

\* C15: on the fallback path a description with no Red-tier keyword and
\* some Yellow-tier keyword is classified Yellow with specialist General
\* Physician.
C15_YellowTierIsYellow ==
  (FallbackAnswered /\ impl \in {"C", "E"}
     /\ ~DescriptionContains(RedTierKeywords)
     /\ DescriptionContains(YellowTierKeywords))
    => /\ result.riskLevel = "Yellow"
       /\ Has(result, "specialist")
       /\ result.specialist = "General Physician"

\* C16: on the fallback path a description with both a Red-tier and a
\* Yellow-tier keyword is classified Red.
C16_RedBeforeYellow ==
  (FallbackAnswered /\ impl \in {"C", "E"}
     /\ DescriptionContains(RedTierKeywords)
     /\ DescriptionContains(YellowTierKeywords))
    => (result.riskLevel = "Red" /\ result.riskLevel # "Yellow")

\* a non-empty description outside both tiers
MatchesNoTier ==
  /\ Has(input, "description") /\ input.description # <<>>
  /\ ~DescriptionContains(RedTierKeywords)
  /\ ~DescriptionContains(YellowTierKeywords)

\* C17 as stated: on the fallback path a non-empty description outside both
\* tiers is classified Green with specialist General Physician.
C17_DefaultIsGreen ==
  (FallbackAnswered /\ impl \in {"A", "B", "E"} /\ MatchesNoTier)
    => /\ result.riskLevel = "Green"
       /\ Has(result, "specialist")
       /\ result.specialist = "General Physician"

\* C17 amended: on the fallback path a non-empty description outside both
\* tiers is classified Green with specialist General Physician by the
\* classifier that names a specialist, and Yellow, with no specialist, by
\* the two classifiers that have a Red tier only.
C17_DefaultOfEachClassifier ==
  (FallbackAnswered /\ MatchesNoTier)
    => /\ impl = "E" => /\ result.riskLevel = "Green"
                        /\ result.specialist = "General Physician"
       /\ impl \in {"A", "B"} => /\ result.riskLevel = "Yellow"
                                 /\ ~Has(result, "specialist")

\* the Green default is reached
C17_Witness ==
  /\ FallbackAnswered /\ MatchesNoTier /\ impl = "E"
  /\ result.riskLevel = "Green"

(***************************************************************************)
(* C18                                                                     *)
(***************************************************************************)
\* neither the strict override nor the Yellow floor is due
NeitherImageRuleApplies ==
  \/ ~IncludesImage
  \/ /\ ~DescriptionContains(StrictTraumaKeywords)
     /\ output.riskLevel \in {"Yellow", "Red"}

\* nextAction, hospitalRequired and precautions of r follow the rules of
\* its riskLevel; o is the answer r was made from
Normalized(r, o) ==
  CASE r.riskLevel = "Green" ->
         /\ r.nextAction = GreenAction /\ r.hospitalRequired = FALSE
         /\ r.precautions = o.precautions
    [] r.riskLevel = "Yellow" ->
         /\ r.nextAction = YellowAction /\ r.hospitalRequired = FALSE
         /\ r.precautions = o.precautions
    [] r.riskLevel = "Red" ->
         /\ r.nextAction = RedAction /\ r.hospitalRequired = TRUE
         /\ r.precautions = <<>>

\* C18: in the implementations A and D, when generation succeeded and
\* neither image rule is due, the value returned has the riskLevel and the
\* analysis of the generation service, and nextAction, hospitalRequired and
\* precautions normalized; without an image a Green answer stays Green.
C18_ModelAnswerIsKept ==
  (pc = "Returned" /\ impl \in {"A", "D"} /\ GenerationSucceeded
     /\ NeitherImageRuleApplies)
    => /\ result.riskLevel = output.riskLevel
       /\ result.analysis = output.analysis
       /\ Normalized(result, output)

(***************************************************************************)
(* C19                                                                     *)
(***************************************************************************)
\* C19: in implementation D, a request with an image whose description
\* holds no strict trauma keyword, answered Yellow by the generation
\* service, is returned Yellow.
C19_OverrideOnlyForTrauma ==
  (pc = "Returned" /\ impl = "D" /\ GenerationSucceeded /\ IncludesImage
     /\ ~DescriptionContains(StrictTraumaKeywords)
     /\ output.riskLevel = "Yellow")
    => result.riskLevel = "Yellow"

(***************************************************************************)
(* C20                                                                     *)
(***************************************************************************)
\* C20: in implementation A the generation service is invoked at most once
\* for a request, and the keyword classifier runs at most once, only after
\* that one invocation has failed and never after it has succeeded.
C20_OneAttemptThenFallback ==
  impl = "A"
    => /\ genCalls <= 1
       /\ fallbackCalls <= 1
       /\ fallbackCalls > 0
            => /\ genCalls = 1
               /\ error \in GenerationFailures
               /\ ~GenerationSucceeded
       /\ GenerationSucceeded => (genCalls = 1 /\ fallbackCalls = 0)
       /\ pc \in {"GenerationAttempted", "GenerationSucceeded",
                  "FlowRejected"} => genCalls = 1

\* the classifier has answered after the one failed invocation
C20_Witness ==
  /\ impl = "A" /\ pc = "Returned"
  /\ genCalls = 1 /\ fallbackCalls = 1
  /\ error \in GenerationFailures

(***************************************************************************)
(* C23                                                                     *)
(***************************************************************************)
\* C23: in the implementations A, D and E, every request with an image
\* that is answered is answered Yellow or Red, whether the generation
\* service answered or the keyword classifier did.
C23_ImageIsNeverGreen ==
  (pc = "Returned" /\ impl \in {"A", "D", "E"} /\ IncludesImage)
    => result.riskLevel \in {"Yellow", "Red"}

(***************************************************************************)
(* The prompt of diagnoseSymptomsFlow                                      *)
(***************************************************************************)
\* the implementations whose prompt is modelled
PromptImpls == {"A", "D"}

\* the object o with the property f set to v
With(o, f, v) == [x \in DOMAIN o \cup {f} |-> IF x = f THEN v ELSE o[x]]

UserDetailsFields == {"name", "age", "weight", "gender"}

AttributeValues == {"", "42"}

\* UserDetailsSchema: four optional strings
UserDetailsSchema ==
  UNION { [S -> AttributeValues] : S \in SUBSET UserDetailsFields }

PromptDescriptions == { <<>>, w_fever }

\* requests with and without description, photoDataUri and userDetails
PromptInputs ==
  LET withDescription == { <<>> } \cup { With(<<>>, "description", d) :
                                          d \in PromptDescriptions }
      withPhoto == withDescription \cup
                     { With(o, "photoDataUri", p) :
                         o \in withDescription, p \in Photos }
  IN withPhoto \cup { With(o, "userDetails", u) :
                        o \in withPhoto, u \in UserDetailsSchema }

\* the instruction blocks, lines 55-75 and 591-624
InstructionBlockA == "You are a healthcare guidance AI ... OUTPUT FORMAT (STRICT JSON)"

InstructionBlockD == "You are a healthcare guidance AI ... SPECIALIST RULES"

InstructionBlock(i) == IF i = "A" THEN InstructionBlockA ELSE InstructionBlockD

NotProvided == "Not provided"

\* ?? in place of ||: only an absent attribute gets the placeholder
attribute_nullish(inp, f) ==
  IF Has(inp, "userDetails") /\ Has(inp.userDetails, f)
  THEN inp.userDetails[f]
  ELSE NotProvided

\* ${userDetails?.name || "Not provided"}
attribute(inp, f) ==
  IF Has(inp, "userDetails") /\ Has(inp.userDetails, f)
       /\ inp.userDetails[f] # ""
  THEN inp.userDetails[f]
  ELSE NotProvided

\* "${description}", with description = "" when the property is absent
quoted(inp) ==
  <<"\"">> \o (IF Has(inp, "description") THEN inp.description ELSE <<>>)
           \o <<"\"">>

\* the template literal: instruction block, USER DETAILS, PROBLEM DESCRIPTION
promptText(i, inp) ==
  << InstructionBlock(i),
     [label |-> "Name", value |-> attribute(inp, "name")],
     [label |-> "Age", value |-> attribute(inp, "age")],
     [label |-> "Weight", value |-> attribute(inp, "weight")],
     [label |-> "Gender", value |-> attribute(inp, "gender")],
     quoted(inp) >>

\* promptParts: lines 52-87 push { text }, lines 589-635 a bare string;
\* then { media: { url } } if (photoDataUri)
buildPrompt(i, inp) ==
  LET first == [kind |-> IF i = "A" THEN "textPart" ELSE "string",
                text |-> promptText(i, inp)]
  IN IF TruthyString(inp, "photoDataUri")
     THEN << first, [kind |-> "mediaPart", url |-> inp.photoDataUri] >>
     ELSE << first >>

InitPrompt ==
  /\ impl \in PromptImpls
  /\ input \in PromptInputs
  /\ pc = "Received"
  /\ output = NoOutput
  /\ result = NoOutput
  /\ error = NoError
  /\ genCalls = 0
  /\ fallbackCalls = 0
  /\ PromptIdle
  /\ ConcIdle
  /\ AppIdle

\* diagnoseSymptoms up to the flow's prompt: the empty-input test, the
\* inputSchema, then promptParts
BuildPrompt ==
  /\ pc = "Received"
  /\ ~isEmptyInput(impl, input)
  /\ DiagnoseSymptomsInputSchema(impl, input)
  /\ promptParts' = buildPrompt(impl, input)
  /\ pc' = "PromptBuilt"
  /\ UNCHANGED <<impl, input, output, result, error, genCalls, fallbackCalls>>
  /\ UNCHANGED <<concVars, appVars>>

NextPrompt == BuildPrompt

PromptSpec == InitPrompt /\ [][NextPrompt]_vars

(***************************************************************************)
(* C22                                                                     *)
(***************************************************************************)
\* an attribute of the subject as the prompt has to show it
Shown(f) ==
  IF Has(input, "userDetails") /\ Has(input.userDetails, f)
       /\ input.userDetails[f] # ""
  THEN input.userDetails[f]
  ELSE "Not provided"

ImagePresent == Has(input, "photoDataUri") /\ input.photoDataUri # ""

\* C22: the prompt built for a request is a sequence whose first segment is
\* text holding the fixed instruction block, then the four subject
\* attributes, each absent or empty one shown as "Not provided", then the
\* quoted description; one media segment with the image follows when an
\* image is present, and nothing follows when it is absent.
C22_PromptOfRequest ==
  pc = "PromptBuilt"
    => /\ Len(promptParts) = (IF ImagePresent THEN 2 ELSE 1)
       /\ promptParts[1].kind \in {"textPart", "string"}
       /\ LET t == promptParts[1].text IN
            /\ Len(t) = 6
            /\ t[1] \in {InstructionBlockA, InstructionBlockD}
            /\ t[2] = [label |-> "Name", value |-> Shown("name")]
            /\ t[3] = [label |-> "Age", value |-> Shown("age")]
            /\ t[4] = [label |-> "Weight", value |-> Shown("weight")]
            /\ t[5] = [label |-> "Gender", value |-> Shown("gender")]
            /\ Head(t[6]) = "\"" /\ t[6][Len(t[6])] = "\""
            /\ SubSeq(t[6], 2, Len(t[6]) - 1) =
                 (IF Has(input, "description") THEN input.description
                  ELSE <<>>)
       /\ ImagePresent
            => promptParts[2] = [kind |-> "mediaPart",
                                 url |-> input.photoDataUri]

\* a prompt with an image whose subject has an empty name and no age
C22_Witness ==
  /\ pc = "PromptBuilt" /\ ImagePresent
  /\ Has(input, "userDetails") /\ Has(input.userDetails, "name")
  /\ input.userDetails.name = "" /\ ~Has(input.userDetails, "age")
  /\ Len(promptParts) = 2
  /\ promptParts[1].text[2].value = "Not provided"

(***************************************************************************)
(* Two requests to diagnoseSymptoms in flight                              *)
(***************************************************************************)
Requests == {1, 2}

\* the implementations with the normalization in place (lines 106-125) and
\* with the image overrides (lines 658-713)
ConcImpls == {"A", "D"}

ConcInputs ==
  { [description |-> w_bleeding, photoDataUri |-> PhotoUri],
    [description |-> w_fever] }

\* a request as diagnoseSymptoms receives it: response is the place in heap
\* of the object ai.generate answered with, answered a copy of that answer
NewRequest(inp) ==
  [ input |-> inp, pc |-> "Received", response |-> 0,
    answered |-> NoOutput, error |-> NoError, result |-> NoOutput ]

\* the single request is not modelled
DiagIdle ==
  /\ input = <<>>
  /\ pc = "Idle"
  /\ output = NoOutput
  /\ result = NoOutput
  /\ error = NoError
  /\ genCalls = 0
  /\ fallbackCalls = 0

InitConc ==
  /\ impl \in ConcImpls
  /\ requests \in [Requests -> { NewRequest(inp) : inp \in ConcInputs }]
  /\ heap = <<>>
  /\ DiagIdle
  /\ PromptIdle
  /\ AppIdle

concFrame == <<impl, input, pc, output, result, error, genCalls,
               fallbackCalls, promptVars, appVars>>

\* diagnoseSymptoms up to its await, for request r
CallR(r) ==
  /\ requests[r].pc = "Received"
  /\ IF isEmptyInput(impl, requests[r].input)
     THEN requests' = [requests EXCEPT ![r].result = emptyInputResult(impl),
                                       ![r].pc = "Returned"]
     ELSE IF ~DiagnoseSymptomsInputSchema(impl, requests[r].input)
     THEN requests' = [requests EXCEPT ![r].error = "inputSchema",
                                       ![r].pc = "FlowRejected"]
     ELSE requests' = [requests EXCEPT ![r].pc = "GenerationAttempted"]
  /\ UNCHANGED heap
  /\ UNCHANGED concFrame

\* every response is written to one object that the requests share
GenerationSucceedsR_shared(r) ==
  /\ requests[r].pc = "GenerationAttempted"
  /\ \E o \in DiagnoseSymptomsOutputSchema(impl) :
       /\ heap' = <<o>>
       /\ requests' = [requests EXCEPT ![r].response = 1,
                                       ![r].answered = o,
                                       ![r].pc = "Responded"]
  /\ UNCHANGED concFrame

\* ai.generate resolves for request r with a new response object
GenerationSucceedsR(r) ==
  /\ requests[r].pc = "GenerationAttempted"
  /\ \E o \in DiagnoseSymptomsOutputSchema(impl) :
       /\ heap' = Append(heap, o)
       /\ requests' = [requests EXCEPT ![r].response = Len(heap) + 1,
                                       ![r].answered = o,
                                       ![r].pc = "Responded"]
  /\ UNCHANGED concFrame

\* ai.generate rejects, or answers without an output, for request r
GenerationFailsR(r) ==
  /\ requests[r].pc = "GenerationAttempted"
  /\ \E f \in GenerationFailures :
       requests' = [requests EXCEPT ![r].error = f, ![r].pc = "FlowRejected"]
  /\ UNCHANGED heap
  /\ UNCHANGED concFrame

\* the flow after its await: the safety rules are written into the response
\* object itself (output.nextAction = ...), and that object is returned
FlowReturnsR(r) ==
  /\ requests[r].pc = "Responded"
  /\ heap' = [heap EXCEPT ![requests[r].response] =
                diagnoseSymptomsFlow(impl, heap[requests[r].response])]
  /\ requests' = [requests EXCEPT ![r].pc = "FlowReturned"]
  /\ UNCHANGED concFrame

\* diagnoseSymptoms after its await, for request r
ReturnResultR(r) ==
  /\ requests[r].pc = "FlowReturned"
  /\ requests' = [requests EXCEPT
       ![r].result = afterFlow(impl, requests[r].input,
                               heap[requests[r].response]),
       ![r].pc = "Returned"]
  /\ UNCHANGED heap
  /\ UNCHANGED concFrame

\* the catch block of diagnoseSymptoms, for request r
CatchR(r) ==
  /\ requests[r].pc = "FlowRejected"
  /\ LET c == catch(impl, requests[r].input, requests[r].error) IN
       IF c.kind = "return"
       THEN requests' = [requests EXCEPT ![r].result = c.value,
                                         ![r].pc = "Returned"]
       ELSE requests' = [requests EXCEPT ![r].error = c.error,
                                         ![r].pc = "Thrown"]
  /\ UNCHANGED heap
  /\ UNCHANGED concFrame

NextConc ==
  \E r \in Requests :
    \/ CallR(r)
    \/ GenerationSucceedsR(r)
    \/ GenerationFailsR(r)
    \/ FlowReturnsR(r)
    \/ ReturnResultR(r)
    \/ CatchR(r)

ConcSpec == InitConc /\ [][NextConc]_vars

(***************************************************************************)
(* C21                                                                     *)
(***************************************************************************)
\* C21: for every interleaving of two requests in flight, the value a
\* request returns is the value it returns when it runs alone with the same
\* answer of the generation service (the safety rules and overrides applied
\* to that answer) or with the same failure (the value of the catch block).
C21_RequestsDoNotInterfere ==
  \A r \in Requests :
    LET q == requests[r] IN
      /\ (q.pc = "Returned" /\ q.answered # NoOutput)
           => q.result = afterFlow(impl, q.input,
                                   diagnoseSymptomsFlow(impl, q.answered))
      /\ (q.pc = "Returned" /\ q.error # NoError)
           => q.result = catch(impl, q.input, q.error).value

\* both requests have returned; the second one was answered first, with
\* another riskLevel, while the first one was waiting
C21_Witness ==
  /\ requests[1].pc = "Returned" /\ requests[2].pc = "Returned"
  /\ requests[1].response = 2 /\ requests[2].response = 1
  /\ requests[1].answered.riskLevel = "Red"
  /\ requests[2].answered.riskLevel = "Green"

(***************************************************************************)
(* The result page: src/app/result/page.tsx and unnamed/part_010           *)
(***************************************************************************)
\* the fetch effect runs at most MaxEffectRuns times on one visit
MaxEffectRuns == 3

\* the two variants of ResultPage
ResultPageImpls == {"page.tsx", "part_010"}

Null == "null"

\* !!v for a string or null
Truthy(v) == v # Null /\ v # ""

getItem(k) == IF k \in DOMAIN localStorage THEN localStorage[k] ELSE Null

removeItem(ls, k) == [x \in DOMAIN ls \ {k} |-> ls[x]]

setItem(ls, k, v) == [x \in DOMAIN ls \cup {k} |-> IF x = k THEN v ELSE ls[x]]

\* what a submit of the symptoms page leaves in localStorage: the
\* description, empty when only an image was chosen, and the image when one
\* was chosen; nothing on a visit without a submit
StoredSubmissions ==
  { <<>>,
    [symptomDescription |-> "fever"],
    [symptomDescription |-> "fever", symptomImage |-> PhotoUri],
    [symptomDescription |-> "", symptomImage |-> PhotoUri] }

NoSymptomsProvided ==
  "No symptoms were provided. Please go back and describe your symptoms."

CouldNotAnalyze == "Could not analyze symptoms. Please try again."

InitResult ==
  /\ resultPageImpl \in ResultPageImpls
  /\ localStorage \in StoredSubmissions
  /\ route = "/result"
  /\ isUserLoading \in BOOLEAN
  /\ user \in (IF isUserLoading THEN {Null} ELSE {"anonymous", "registered"})
  /\ isProfileLoading \in BOOLEAN
  /\ userProfile = 0
  /\ rpResult = Null
  /\ rpLoading = TRUE
  /\ rpError = Null
  /\ fetches = <<>>
  /\ analyses = 0
  /\ finished = 0
  /\ effectRuns = 0
  /\ mounted = FALSE
  /\ impl = "none"
  /\ DiagIdle
  /\ PromptIdle
  /\ ConcIdle
  /\ SymptomsIdle
  /\ HomeIdle /\ SignUpIdle /\ TrackerIdle

\* the test that opens the fetch effect, for the values ul, u, pl of
\* isUserLoading, user, isProfileLoading
fetchGuard(v, ul, u, pl) ==
  IF v = "page.tsx"
  THEN ~ul /\ ~(u = "registered" /\ pl) /\ u # Null
  ELSE ~ul /\ ~pl /\ u # Null

\* the two effects of ResultPage, run after a render with ul, u, pl: the
\* redirect to /login, then fetchResult up to its await
runEffects(ul, u, pl) ==
  IF ~ul /\ u = Null
  THEN /\ route' = "/login"
       /\ UNCHANGED <<rpError, rpLoading, fetches, analyses>>
  ELSE IF fetchGuard(resultPageImpl, ul, u, pl)
  THEN LET description == getItem("symptomDescription")
           image == getItem("symptomImage")
       IN IF ~Truthy(description) /\ ~Truthy(image)
          THEN IF resultPageImpl = "page.tsx"
               THEN /\ route' = "/symptoms"
                    /\ UNCHANGED <<rpError, rpLoading, fetches, analyses>>
               ELSE /\ rpError' = NoSymptomsProvided
                    /\ rpLoading' = FALSE
                    /\ UNCHANGED <<route, fetches, analyses>>
          ELSE /\ fetches' = Append(fetches, [description |-> description,
                                              image |-> image])
               /\ analyses' = analyses + 1
               /\ UNCHANGED <<route, rpError, rpLoading>>
  ELSE UNCHANGED <<route, rpError, rpLoading, fetches, analyses>>

resultFrame == <<diagVars, promptVars, concVars, symptomsVars, homeVars,
                 signUpVars, trackerVars>>

\* the page is shown and its effects may run again
Rendering == mounted /\ route = "/result" /\ effectRuns < MaxEffectRuns

\* the first render of the page
Mount ==
  /\ ~mounted /\ route = "/result"
  /\ mounted' = TRUE
  /\ effectRuns' = effectRuns + 1
  /\ runEffects(isUserLoading, user, isProfileLoading)
  /\ UNCHANGED <<localStorage, user, isUserLoading, resultPageImpl,
                 isProfileLoading, userProfile, rpResult, finished>>
  /\ UNCHANGED resultFrame

\* useUser() has the user: isUserLoading turns false
AuthStateResolves ==
  /\ Rendering /\ isUserLoading
  /\ isUserLoading' = FALSE
  /\ user' \in {Null, "anonymous", "registered"}
  /\ effectRuns' = effectRuns + 1
  /\ runEffects(FALSE, user', isProfileLoading)
  /\ UNCHANGED <<localStorage, resultPageImpl, isProfileLoading, userProfile,
                 rpResult, finished, mounted>>
  /\ UNCHANGED resultFrame

\* useDoc() starts or ends loading; it ends with the profile of a
\* registered user
ProfileLoadingChanges ==
  /\ Rendering
  /\ isProfileLoading' = ~isProfileLoading
  /\ userProfile' = IF isProfileLoading /\ user = "registered"
                    THEN userProfile + 1 ELSE userProfile
  /\ effectRuns' = effectRuns + 1
  /\ runEffects(isUserLoading, user, isProfileLoading')
  /\ UNCHANGED <<localStorage, user, isUserLoading, resultPageImpl, rpResult,
                 finished, mounted>>
  /\ UNCHANGED resultFrame

\* useDoc() delivers another snapshot of the profile
ProfileSnapshot ==
  /\ Rendering
  /\ ~isUserLoading /\ user = "registered" /\ ~isProfileLoading
  /\ userProfile' = userProfile + 1
  /\ effectRuns' = effectRuns + 1
  /\ runEffects(isUserLoading, user, isProfileLoading)
  /\ UNCHANGED <<localStorage, user, isUserLoading, resultPageImpl,
                 isProfileLoading, rpResult, finished, mounted>>
  /\ UNCHANGED resultFrame

\* the finally block: page.tsx removes the keys it has read a value of,
\* part_010 removes both
cleanUp(v, f) ==
  IF v = "page.tsx"
  THEN LET ls == IF Truthy(f.description)
                 THEN removeItem(localStorage, "symptomDescription")
                 ELSE localStorage
       IN IF Truthy(f.image) THEN removeItem(ls, "symptomImage") ELSE ls
  ELSE removeItem(removeItem(localStorage, "symptomDescription"),
                  "symptomImage")

Without(q, k) == [i \in 1..(Len(q) - 1) |-> IF i < k THEN q[i] ELSE q[i + 1]]

\* diagnoseSymptoms returns to a waiting fetchResult: setResult, finally
DiagnoseReturns ==
  \E k \in 1..Len(fetches), res \in RiskLevels :
    /\ rpResult' = res
    /\ rpLoading' = FALSE
    /\ localStorage' = cleanUp(resultPageImpl, fetches[k])
    /\ fetches' = Without(fetches, k)
    /\ finished' = finished + 1
    /\ UNCHANGED <<route, user, isUserLoading, resultPageImpl,
                   isProfileLoading, userProfile, rpError, analyses,
                   effectRuns, mounted>>
    /\ UNCHANGED resultFrame

\* diagnoseSymptoms throws to a waiting fetchResult: setError, finally
DiagnoseThrows ==
  \E k \in 1..Len(fetches) :
    /\ rpError' = CouldNotAnalyze
    /\ rpLoading' = FALSE
    /\ localStorage' = cleanUp(resultPageImpl, fetches[k])
    /\ fetches' = Without(fetches, k)
    /\ finished' = finished + 1
    /\ UNCHANGED <<route, user, isUserLoading, resultPageImpl,
                   isProfileLoading, userProfile, rpResult, analyses,
                   effectRuns, mounted>>
    /\ UNCHANGED resultFrame

NextResult ==
  \/ Mount
  \/ AuthStateResolves
  \/ ProfileLoadingChanges
  \/ ProfileSnapshot
  \/ DiagnoseReturns
  \/ DiagnoseThrows

ResultSpec == InitResult /\ [][NextResult]_vars

(***************************************************************************)
(* C24                                                                     *)
(***************************************************************************)
\* C24: on one visit of the result page, for the one submission stored,
\* diagnoseSymptoms is called at most once, whatever changes of user,
\* profile or loading state run the fetch effect again.
C24_OneAnalysisPerSubmission == analyses <= 1

(***************************************************************************)
(* C25                                                                     *)
(***************************************************************************)
\* a result has been set and no error or redirect hides it
ResultStands ==
  route = "/result" /\ rpResult # Null /\ rpError = Null /\ ~rpLoading

\* C25: once the result page has set a result, no later step sets an error
\* or leaves /result.
C25_ResultStaysDisplayed ==
  [][ResultStands => (route' = "/result" /\ rpError' = Null)]_vars

(***************************************************************************)
(* C26                                                                     *)
(***************************************************************************)
\* C26: once a call of fetchResult to diagnoseSymptoms has finished, by a
\* return or by a throw, localStorage holds neither symptomDescription nor
\* symptomImage.
C26_StorageIsCleared ==
  finished > 0
    => /\ "symptomDescription" \notin DOMAIN localStorage
       /\ "symptomImage" \notin DOMAIN localStorage

(***************************************************************************)
(* The symptoms page: src/app/symptoms/page.tsx, unnamed/part_012 and      *)
(* unnamed/part_011                                                        *)
(***************************************************************************)
\* the three variants of SymptomsPage
SymptomsPageImpls == {"page.tsx", "part_012", "part_011"}

\* what the textarea can hold
TypedDescriptions == {"", "fever"}

\* the files the user can choose: part_012 refuses a file above 4 MB
Files == {"small.png", "large.png"}

tooLarge(file) == file = "large.png"

\* what localStorage.setItem accepts before it throws QuotaExceededError:
\* every value, the description but no image, or nothing
Quotas == {"all", "text", "nothing"}

accepts(q, k) ==
  \/ q = "all"
  \/ q = "text" /\ k = "symptomDescription"

PleaseDescribe == "Please describe your problem or upload an image."

FailedToRead == "Failed to read image file."

CouldNotSave ==
  "Could not save symptom data. Your browser storage might be full or disabled."

InitSymptoms ==
  /\ symptomsPageImpl \in SymptomsPageImpls
  /\ spDescription = ""
  /\ spImage = Null
  /\ spImagePreview = Null
  /\ spError = ""
  /\ spLoading = FALSE
  /\ reader = "idle"
  /\ quota \in Quotas
  /\ route = "/symptoms"
  /\ localStorage \in { ls \in StoredSubmissions :
                          \A k \in DOMAIN ls : accepts(quota, k) }
  /\ user \in {"anonymous", "registered"}
  /\ isUserLoading = FALSE
  /\ impl = "none"
  /\ DiagIdle
  /\ PromptIdle
  /\ ConcIdle
  /\ ResultIdle
  /\ HomeIdle /\ SignUpIdle /\ TrackerIdle

symptomsFrame == <<diagVars, promptVars, concVars, resultVars, homeVars,
                   signUpVars, trackerVars, user, isUserLoading,
                   symptomsPageImpl, quota>>

\* the form is shown (the page shows "Loading Session..." without a user)
\* and its controls are enabled
FormEnabled ==
  /\ route = "/symptoms"
  /\ ~isUserLoading /\ user # Null
  /\ ~spLoading

\* onChange of the textarea
ChangeDescription ==
  /\ FormEnabled
  /\ \E d \in TypedDescriptions \ {spDescription} : spDescription' = d
  /\ UNCHANGED <<route, localStorage, spImage, spImagePreview, spError,
                 spLoading, reader>>
  /\ UNCHANGED symptomsFrame

\* handleImageChange, with the data URL of the preview read at once
handleImageChange ==
  /\ FormEnabled
  /\ \E file \in Files :
       IF symptomsPageImpl = "part_012" /\ tooLarge(file)
       THEN UNCHANGED <<spImage, spImagePreview>>
       ELSE spImage' = file /\ spImagePreview' = PhotoUri
  /\ UNCHANGED <<route, localStorage, spDescription, spError, spLoading,
                 reader>>
  /\ UNCHANGED symptomsFrame

\* handleSubmit up to its return: a setItem that throws ends the handler,
\* in part_012 through its catch block
handleSubmit ==
  /\ FormEnabled
  /\ IF spDescription = "" /\ spImage = Null
     THEN /\ spError' = PleaseDescribe
          /\ UNCHANGED <<route, localStorage, spLoading, reader>>
     ELSE IF ~accepts(quota, "symptomDescription")
     THEN /\ IF symptomsPageImpl = "part_012"
             THEN spError' = CouldNotSave /\ spLoading' = FALSE
             ELSE spError' = "" /\ spLoading' = TRUE
          /\ UNCHANGED <<route, localStorage, reader>>
     ELSE /\ spError' = ""
          /\ spLoading' = TRUE
          /\ localStorage' =
               removeItem(setItem(localStorage, "symptomDescription",
                                  spDescription), "symptomImage")
          /\ IF spImage # Null
             THEN reader' = "reading" /\ UNCHANGED route
             ELSE route' = "/result" /\ UNCHANGED reader
  /\ UNCHANGED <<spDescription, spImage, spImagePreview>>
  /\ UNCHANGED symptomsFrame

\* reader.onload: the data URL is stored and the page navigates; a setItem
\* that throws ends the callback before router.push
readerOnload ==
  /\ reader = "reading"
  /\ reader' = "idle"
  /\ IF accepts(quota, "symptomImage")
     THEN /\ localStorage' = setItem(localStorage, "symptomImage", PhotoUri)
          /\ route' = "/result"
     ELSE UNCHANGED <<localStorage, route>>
  /\ UNCHANGED <<spDescription, spImage, spImagePreview, spError, spLoading>>
  /\ UNCHANGED symptomsFrame

\* reader.onerror
readerOnerror ==
  /\ reader = "reading"
  /\ reader' = "idle"
  /\ spError' = FailedToRead
  /\ spLoading' = FALSE
  /\ UNCHANGED <<route, localStorage, spDescription, spImage, spImagePreview>>
  /\ UNCHANGED symptomsFrame

NextSymptoms ==
  \/ ChangeDescription
  \/ handleImageChange
  \/ handleSubmit
  \/ readerOnload
  \/ readerOnerror

SymptomsSpec == InitSymptoms /\ [][NextSymptoms]_vars

\* a FileReader that was started fires onload or onerror
FairSymptomsSpec ==
  SymptomsSpec /\ WF_vars(readerOnload \/ readerOnerror)

(***************************************************************************)
(* C30                                                                     *)
(***************************************************************************)
\* the page has navigated with the submission stored
NavigatedWithSubmission ==
  /\ route = "/result"
  /\ "symptomDescription" \in DOMAIN localStorage
  /\ localStorage.symptomDescription = spDescription
  /\ spImage # Null => "symptomImage" \in DOMAIN localStorage

ErrorShown == route = "/symptoms" /\ spError # "" /\ ~spLoading

\* C30: a symptoms page in the loading state after a valid submit
\* eventually navigates to /result with the description, and the image
\* when one was chosen, stored, or shows an error with loading reset.
C30_SubmitEnds ==
  (route = "/symptoms" /\ spLoading) ~> (NavigatedWithSubmission \/ ErrorShown)

(***************************************************************************)
(* The home page, src/app/page.tsx, the anonymous sign-in of               *)
(* src/firebase/non-blocking-login.tsx and the auth check of the symptoms  *)
(* page; a quick check leads to the symptoms page                          *)
(***************************************************************************)
\* the two variants of Home, lines 42-106 and 149-229
HomePageImpls == {"page.tsx:42", "page.tsx:149"}

StartingAnonymousSession == "Starting Anonymous Session"

SignInFailed == "Sign In Failed"

AnonymousSignInFailed == "Anonymous Sign-In Failed"

AuthenticationRequired == "Authentication Required"

AnonymousSession == "Anonymous Session"

InitHome ==
  /\ homePageImpl \in HomePageImpls
  /\ homeLoading = Null
  /\ signIn = "idle"
  /\ toasts = {}
  /\ symptomsMounted = FALSE
  /\ route = "/"
  /\ localStorage = <<>>
  /\ isUserLoading \in BOOLEAN
  /\ user \in (IF isUserLoading THEN {Null}
               ELSE {Null, "anonymous", "registered"})
  /\ impl = "none"
  /\ DiagIdle
  /\ PromptIdle
  /\ ConcIdle
  /\ symptomsPageImpl \in SymptomsPageImpls
  /\ spDescription = ""
  /\ spImage = Null
  /\ spImagePreview = Null
  /\ spError = ""
  /\ spLoading = FALSE
  /\ reader = "idle"
  /\ quota \in Quotas
  /\ ResultIdle /\ SignUpIdle /\ TrackerIdle

homeFrame == <<diagVars, promptVars, concVars, resultVars, symptomsVars,
               signUpVars, trackerVars, localStorage, homePageImpl>>

\* the auth check of SymptomsPage, run after a render with ul, u for
\* isUserLoading, user; m says that the page is rendered
authCheck(m, ul, u) ==
  IF m /\ route = "/symptoms" /\ ~ul
  THEN IF u = Null
       THEN /\ toasts' = toasts \cup {AuthenticationRequired}
            /\ route' = "/login"
       ELSE IF u = "anonymous"
       THEN /\ toasts' = toasts \cup {AnonymousSession}
            /\ UNCHANGED route
       ELSE UNCHANGED <<toasts, route>>
  ELSE UNCHANGED <<toasts, route>>

\* handleQuickCheck: initiateAnonymousSignIn(auth) is called and not
\* awaited, then the toast and router.push("/symptoms")
handleQuickCheck ==
  /\ route = "/" /\ homeLoading # "quick" /\ signIn = "idle"
  /\ homeLoading' = "quick"
  /\ signIn' = "pending"
  /\ toasts' = toasts \cup {StartingAnonymousSession}
  /\ route' = "/symptoms"
  /\ UNCHANGED <<user, isUserLoading, symptomsMounted>>
  /\ UNCHANGED homeFrame

\* handleSecureLogin; handleSignIn and handleSignUp in the second variant
handleSecureLogin ==
  /\ route = "/"
  /\ \E l \in (IF homePageImpl = "page.tsx:42" THEN {"secure"}
               ELSE {"signin", "signup"}) :
       homeLoading # l /\ homeLoading' = l
  /\ route' = "/login"
  /\ UNCHANGED <<signIn, toasts, user, isUserLoading, symptomsMounted>>
  /\ UNCHANGED homeFrame

\* the first render of the symptoms page
SymptomsPageMounts ==
  /\ route = "/symptoms" /\ ~symptomsMounted
  /\ symptomsMounted' = TRUE
  /\ authCheck(TRUE, isUserLoading, user)
  /\ UNCHANGED <<homeLoading, signIn, user, isUserLoading>>
  /\ UNCHANGED homeFrame

\* the provider learns the stored session: isUserLoading turns false
AuthStateKnown ==
  /\ isUserLoading /\ signIn \in {"idle", "pending"}
  /\ isUserLoading' = FALSE
  /\ user' \in {Null, "anonymous", "registered"}
  /\ authCheck(symptomsMounted, FALSE, user')
  /\ UNCHANGED <<homeLoading, signIn, symptomsMounted>>
  /\ UNCHANGED homeFrame

\* signInAnonymously resolves: useUser() has the anonymous user
signInAnonymouslyResolves ==
  /\ signIn = "pending"
  /\ signIn' = "resolved"
  /\ user' = "anonymous"
  /\ isUserLoading' = FALSE
  /\ authCheck(symptomsMounted, FALSE, "anonymous")
  /\ UNCHANGED <<homeLoading, symptomsMounted>>
  /\ UNCHANGED homeFrame

\* signInAnonymously rejects: the catch block of initiateAnonymousSignIn
\* shows its toast and rethrows; the promise was not awaited, so no catch
\* block of handleQuickCheck runs
signInAnonymouslyRejects ==
  /\ signIn = "pending"
  /\ signIn' = "rejected"
  /\ toasts' = toasts \cup {SignInFailed}
  /\ UNCHANGED <<homeLoading, route, user, isUserLoading, symptomsMounted>>
  /\ UNCHANGED homeFrame

\* the home page, and the symptoms page that a quick check leads to
NextHome ==
  \/ handleQuickCheck
  \/ handleSecureLogin
  \/ SymptomsPageMounts
  \/ AuthStateKnown
  \/ signInAnonymouslyResolves
  \/ signInAnonymouslyRejects
  \/ NextSymptoms

HomeSpec == InitHome /\ [][NextHome]_vars

(***************************************************************************)
(* C27                                                                     *)
(***************************************************************************)
\* C27: after a quick check whose anonymous sign-in failed, the toast
\* "Anonymous Sign-In Failed" is shown, loading is null and the page has
\* not navigated to /symptoms; the page is at /symptoms after a quick check
\* only when the sign-in has succeeded.
C27_SignInIsAwaited ==
  /\ signIn = "rejected"
       => /\ AnonymousSignInFailed \in toasts
          /\ homeLoading = Null
          /\ route = "/"
  /\ (signIn # "idle" /\ route = "/symptoms") => signIn = "resolved"

(***************************************************************************)
(* Sign-up and sign-in by username, src/app/login/page.tsx: two browsers   *)
(* run SignUpForm.onSubmit against the same Firestore and Firebase Auth    *)
(***************************************************************************)
Clients == {1, 2}

Usernames == {"ana", "ben"}

Emails == {"a@x.org", "b@x.org"}

UsernameExists == "Username already exists."

EmailRegistered == "Email already registered."

AccountCreated == "Account created successfully"

\* the documents of the query where('username', '==', username); the
\* key of a profile is the uid of its account, and Firebase Auth has one
\* account, so one uid, per email: the email stands for the uid
usersWithUsername(ps, username) ==
  { uid \in DOMAIN ps : ps[uid].username = username }

\* the emails that the limit(1) query of SignInForm.onSubmit can hand to
\* signInWithEmailAndPassword
signInEmails(username) ==
  { profiles[uid].email : uid \in usersWithUsername(profiles, username) }

\* setDoc with merge of the profile written by sign-up
setProfile(ps, uid, data) ==
  [ k \in DOMAIN ps \cup {uid} |-> IF k = uid THEN data ELSE ps[k] ]

BlankForm == [pc |-> "form", username |-> "", email |-> "",
              loading |-> FALSE, toast |-> ""]

InitSignUp ==
  /\ profiles \in {<<>>} \cup
       { [ uid \in {e} |-> [username |-> u, email |-> e] ] :
           u \in Usernames, e \in Emails }
  /\ accounts = DOMAIN profiles
  /\ signUps = [ c \in Clients |-> BlankForm ]
  /\ impl = "none"
  /\ DiagIdle
  /\ PromptIdle
  /\ ConcIdle
  /\ SessionIdle /\ ResultIdle /\ SymptomsIdle /\ HomeIdle /\ TrackerIdle

signUpFrame == <<diagVars, promptVars, concVars, sessionVars, resultVars,
                 symptomsVars, homeVars, trackerVars>>

\* the catch and finally blocks of onSubmit
signUpFailed(c, description) ==
  signUps' = [signUps EXCEPT ![c].pc = "form", ![c].loading = FALSE,
                             ![c].toast = description]

\* onSubmit up to the await of getDocs: setLoading(true) and the query
onSubmit(c) ==
  /\ signUps[c].pc = "form" /\ ~signUps[c].loading
  /\ \E u \in Usernames, e \in Emails :
       signUps' = [signUps EXCEPT ![c] = [pc |-> "query", username |-> u,
                                          email |-> e, loading |-> TRUE,
                                          toast |-> ""]]
  /\ UNCHANGED <<profiles, accounts>>
  /\ UNCHANGED signUpFrame

\* getDocs resolves: USERNAME_TAKEN when the snapshot is not empty, else
\* createUserWithEmailAndPassword is called
getDocsResolves(c) ==
  /\ signUps[c].pc = "query"
  /\ IF usersWithUsername(profiles, signUps[c].username) # {}
     THEN signUpFailed(c, UsernameExists)
     ELSE signUps' = [signUps EXCEPT ![c].pc = "create"]
  /\ UNCHANGED <<profiles, accounts>>
  /\ UNCHANGED signUpFrame

\* createUserWithEmailAndPassword settles: auth/email-already-in-use or a
\* new account, followed by the call that writes the profile
createUserSettles(c) ==
  /\ signUps[c].pc = "create"
  /\ IF signUps[c].email \in accounts
     THEN /\ signUpFailed(c, EmailRegistered)
          /\ UNCHANGED accounts
     ELSE /\ accounts' = accounts \cup {signUps[c].email}
          /\ signUps' = [signUps EXCEPT ![c].pc = "write"]
  /\ UNCHANGED profiles
  /\ UNCHANGED signUpFrame

\* the profile document users/{uid} is written, then the success toast,
\* onAuthSuccess and the finally block
profileWritten(c) ==
  /\ signUps[c].pc = "write"
  /\ profiles' = setProfile(profiles, signUps[c].email,
                            [username |-> signUps[c].username,
                             email |-> signUps[c].email])
  /\ signUps' = [signUps EXCEPT ![c].pc = "done", ![c].loading = FALSE,
                                ![c].toast = AccountCreated]
  /\ UNCHANGED accounts
  /\ UNCHANGED signUpFrame

NextSignUp ==
  \E c \in Clients :
    \/ onSubmit(c)
    \/ getDocsResolves(c)
    \/ createUserSettles(c)
    \/ profileWritten(c)

SignUpSpec == InitSignUp /\ [][NextSignUp]_vars

(***************************************************************************)
(* C29                                                                     *)
(***************************************************************************)
\* C29: no two stored profiles carry the same username, so that the
\* username lookup of sign-in finds the email of at most one account.
C29_UsernamesAreUnique ==
  \A u \in Usernames :
    /\ Cardinality(usersWithUsername(profiles, u)) <= 1
    /\ Cardinality(signInEmails(u)) <= 1

(***************************************************************************)
(* The medicine tracker, MedicineTrackerPage of src/app/login/page.tsx:    *)
(* the medicines of today, their status documents of today, and the        *)
(* effect that creates the status documents                                *)
(***************************************************************************)
MedicineIds == {"m1", "m2"}

Times == {"Morning", "Night"}

Statuses == {"Pending", "Taken", "Missed"}

\* setDocumentNonBlocking is imported from @/firebase/non-blocking-updates;
\* the payload of handleUpdateStatus has the key "status.<time>", which a
\* write takes either as the path of a field of the map status, as the
\* comment of line 766 has it, or as the name of a field of the document,
\* as Firestore's setDoc with merge does
SetDocumentImpls == {"fieldPath", "fieldName"}

\* a status document without fields
NoDocument == [status |-> <<>>, named |-> <<>>]

statusDoc(sts, medicineId) ==
  IF medicineId \in DOMAIN sts THEN sts[medicineId] ELSE NoDocument

\* set with merge of the field f of the map m
merged(m, f, v) == [ k \in DOMAIN m \cup {f} |-> IF k = f THEN v ELSE m[k] ]

\* schedule: statuses?.[time] || 'Pending'
doseStatus(medicineId, time) ==
  LET statuses == statusDoc(medicineStatuses, medicineId).status
  IN  IF time \in DOMAIN statuses THEN statuses[time] ELSE "Pending"

\* createInitialStatusRecords: for every medicine of today, batch.set with
\* merge of status: {each time of the medicine: 'Pending'}
createInitialStatusRecords(meds, sts) ==
  [ id \in DOMAIN sts \cup DOMAIN meds |->
      IF id \in DOMAIN meds
      THEN [status |-> [ t \in DOMAIN statusDoc(sts, id).status \cup meds[id]
                           |-> IF t \in meds[id] THEN "Pending"
                               ELSE statusDoc(sts, id).status[t] ],
            named  |-> statusDoc(sts, id).named]
      ELSE sts[id] ]

\* the effect of lines 836-840, run after a render with the medicines meds
\* and the flag loading
statusEffect(meds, loading, sts) ==
  IF DOMAIN meds # {} /\ ~loading
  THEN createInitialStatusRecords(meds, sts)
  ELSE sts

InitTracker ==
  /\ medicines = <<>>
  /\ medicineStatuses = <<>>
  /\ isStatusLoading = TRUE
  /\ setDocumentImpl \in SetDocumentImpls
  /\ impl = "none"
  /\ DiagIdle
  /\ PromptIdle
  /\ ConcIdle
  /\ SessionIdle /\ ResultIdle /\ SymptomsIdle /\ HomeIdle /\ SignUpIdle

trackerFrame == <<diagVars, promptVars, concVars, sessionVars, resultVars,
                  symptomsVars, homeVars, signUpVars, setDocumentImpl>>

\* the first snapshot of today's status documents: isStatusLoading turns
\* false and the effect runs
StatusesLoaded ==
  /\ isStatusLoading
  /\ isStatusLoading' = FALSE
  /\ medicineStatuses' = statusEffect(medicines, FALSE, medicineStatuses)
  /\ UNCHANGED medicines
  /\ UNCHANGED trackerFrame

\* the page is left and opened again: the listeners start anew
PageReopened ==
  /\ ~isStatusLoading
  /\ isStatusLoading' = TRUE
  /\ UNCHANGED <<medicines, medicineStatuses>>
  /\ UNCHANGED trackerFrame

\* AddMedicineDialog.onSubmit adds a medicine of today; the snapshot of the
\* medicines changes medicinesForToday and the effect runs
MedicineAdded ==
  /\ \E id \in MedicineIds \ DOMAIN medicines :
     \E times \in (SUBSET Times) \ {{}} :
       /\ medicines' = [ k \in DOMAIN medicines \cup {id} |->
                           IF k = id THEN times ELSE medicines[k] ]
       /\ medicineStatuses' =
            statusEffect(medicines', isStatusLoading, medicineStatuses)
  /\ UNCHANGED isStatusLoading
  /\ UNCHANGED trackerFrame

\* handleUpdateStatus, offered by the card of a dose that schedule shows
\* as Pending
handleUpdateStatus ==
  /\ ~isStatusLoading
  /\ \E medicineId \in DOMAIN medicines :
     \E time \in medicines[medicineId] :
     \E newStatus \in {"Taken", "Missed"} :
       /\ doseStatus(medicineId, time) = "Pending"
       /\ LET d == statusDoc(medicineStatuses, medicineId)
              w == IF setDocumentImpl = "fieldPath"
                   THEN [d EXCEPT !.status = merged(d.status, time, newStatus)]
                   ELSE [d EXCEPT !.named = merged(d.named, time, newStatus)]
          IN  medicineStatuses' = merged(medicineStatuses, medicineId, w)
  /\ UNCHANGED <<medicines, isStatusLoading>>
  /\ UNCHANGED trackerFrame

\* handleDeleteMedicine deletes the medicine and its status documents; the
\* snapshot of the medicines changes medicinesForToday and the effect runs
handleDeleteMedicine ==
  /\ \E medicineId \in DOMAIN medicines :
       /\ medicines' = [ k \in DOMAIN medicines \ {medicineId} |->
                           medicines[k] ]
       /\ medicineStatuses' =
            statusEffect(medicines', isStatusLoading,
                         [ k \in DOMAIN medicineStatuses \ {medicineId} |->
                             medicineStatuses[k] ])
  /\ UNCHANGED isStatusLoading
  /\ UNCHANGED trackerFrame

NextTracker ==
  \/ StatusesLoaded
  \/ PageReopened
  \/ MedicineAdded
  \/ handleUpdateStatus
  \/ handleDeleteMedicine

TrackerSpec == InitTracker /\ [][NextTracker]_vars

(***************************************************************************)
(* C28                                                                     *)
(***************************************************************************)
\* C28: a dose of a medicine of today whose status is Taken or Missed keeps
\* that status in every step that keeps the medicine; no run of
\* createInitialStatusRecords returns it to Pending.
C28_MarkedDoseStays ==
  [][ \A medicineId \in MedicineIds, time \in Times :
        ( /\ medicineId \in DOMAIN medicines
          /\ medicineId \in DOMAIN medicines'
          /\ doseStatus(medicineId, time) \in {"Taken", "Missed"} )
        => doseStatus(medicineId, time)' = doseStatus(medicineId, time) ]_vars

====
